---- MODULE Spec2Model ----
(***************************************************************************)
(* Model of the redirect-on-status middleware (redirectstatus.go):         *)
(* redirectStatus.ServeHTTP wraps the real http.ResponseWriter in a        *)
(* codeCatcher, runs the upstream handler against it, and, when the        *)
(* catcher caught a filtered code, writes a redirect on the real writer.   *)
(*                                                                         *)
(* Strings and byte buffers are sequences of one-character strings.  The   *)
(* real http.ResponseWriter is an external collaborator: it is modelled    *)
(* as its header map plus the ordered log of the calls made on it.         *)
(***************************************************************************)
EXTENDS Integers, Sequences, FiniteSets, TLC

(* ------------------------------ bounds --------------------------------- *)
\* number of calls the upstream handler makes on the interceptor
MaxCalls == 3
\* length of a buffer the upstream handler writes
MaxBufLen == 1

(* --------------------------- program constants ------------------------- *)
StatusOK == 200
StatusFound == 302
StatusTemporaryRedirect == 307
StatusInternalServerError == 500

(* ------------------------------ input sets ----------------------------- *)
\* status codes the upstream handler passes to WriteHeader
Codes == {200, 400, 401, 403, 404}
\* parsed configurations of Config.Status: lists of [low, high] blocks
RangeSets ==
  { << >>,
    << <<401, 403>> >>,
    << <<200, 200>>, <<403, 404>>, <<404, 404>> >> }
\* Config.Status texts that parse to the range sets above
ValidStatuses ==
  { << >>,
    << <<"4", "0", "1", "-", "4", "0", "3">> >>,
    << <<"2", "0", "0">>, <<"4", "0", "3", "-", "4", "0", "4">>, <<"4", "0", "4">> >> }
\* Config.Status texts with a malformed block: not a number, two dashes,
\* empty, a missing bound, a bad block after a good one
MalformedStatuses ==
  { << <<"4", "x", "4">> >>,
    << <<"4", "0", "1", "-", "4", "0", "3", "-", "4", "0", "4">> >>,
    << <<>> >>,
    << <<"4", "0", "1", "-">> >>,
    << <<"4", "0", "1", "-", "4", "0", "3">>, <<"x">> >> }
Methods == {"GET", "POST"}
\* Config.To: empty, without placeholders, with both placeholders
Templates ==
  { << >>,
    <<"h", ":", "/", "l">>,
    <<"h", "t", "t", "p", ":", "/", "/", "x", "/", "{", "s", "t", "a", "t",
      "u", "s", "}", "?", "u", "=", "{", "u", "r", "l", "}">> }
\* the empty template, the example, templates with a placeholder repeated,
\* both mixed, a truncated placeholder, a placeholder inside braces
TargetTemplates ==
  { << >>,
    <<"h", "t", "t", "p", ":", "/", "/", "x", "/", "{", "s", "t", "a", "t",
      "u", "s", "}", "?", "u", "=", "{", "u", "r", "l", "}">>,
    <<"{", "s", "t", "a", "t", "u", "s", "}", "{", "s", "t", "a", "t", "u",
      "s", "}">>,
    <<"{", "u", "r", "l", "}", "&", "{", "u", "r", "l", "}">>,
    <<"{", "u", "r", "l", "}", "{", "s", "t", "a", "t", "u", "s", "}", "{",
      "u", "r", "l", "}">>,
    <<"{", "s", "t", "a", "t", "}", "{", "u", "r", "}">>,
    <<"{", "{", "s", "t", "a", "t", "u", "s", "}", "}">> }
\* URLs with reserved bytes, a space, the text of a placeholder
TargetURLs ==
  { <<"h", "t", "t", "p", ":", "/", "/", "a", "/", "b", "?", "c", "=",
      "d">>,
    <<"a", " ", "b">>,
    <<"{", "s", "t", "a", "t", "u", "s", "}">> }
\* req.URL.String()
URLs == { <<"h", "t", "t", "p", ":", "/", "/", "a", "/", "b", "?", "c", "=", "d">> }
\* buffers are told apart by their length
Bytes == {"a"}
HeaderKeys == {"Location", "X-A", "Content-Type", "X-Content-Type-Options"}
\* keys the upstream handler mutates
HandlerKeys == {"Location", "X-A"}
HeaderValues == { <<"v">> }
\* header maps found on the real writer when the middleware is entered
EmptyHeader == [k \in HeaderKeys |-> << >>]
PresetHeaders ==
  { EmptyHeader,
    [k \in HeaderKeys |->
       IF k \in HandlerKeys THEN << <<"o">> >> ELSE << >>] }
\* the error a failing Write of the real writer returns
SinkErr == "EIO"
SinkErrText == <<"E", "I", "O">>
\* the error of Hijack on a real writer that is no http.Hijacker
NotHijackerErr == "not a http.Hijacker"
\* the error of a Config.Status that does not parse
ParseErr == "ParseError"

Min(a, b) == IF a < b THEN a ELSE b

RECURSIVE SeqsUpTo(_, _)
SeqsUpTo(S, n) ==
  IF n = 0 THEN { << >> }
  ELSE LET shorter == SeqsUpTo(S, n - 1)
       IN  shorter \cup { Append(s, x) : s \in shorter, x \in S }

Buffers == SeqsUpTo(Bytes, MaxBufLen)

VARIABLES
  pc,              \* "new", "failed" (New returned an error), "idle",
                   \* "handler" (upstream handler running), "done"
  httpCodeRanges,  \* redirectStatus.httpCodeRanges
  to,              \* redirectStatus.to
  method,          \* req.Method
  reqURL,          \* req.URL.String()
  sinkIsFlusher,   \* the real writer implements http.Flusher
  sinkIsHijacker,  \* the real writer implements http.Hijacker
  plugin,          \* the Config given to New and what New returned
  cc,              \* the codeCatcher fields
  rw,              \* the real writer: header map, call log, written buffers
  last,            \* the last call on the interceptor, its argument, result
  written,         \* the buffers the upstream handler has passed to Write
  calls            \* number of calls the upstream handler has made

vars == <<pc, httpCodeRanges, to, method, reqURL, sinkIsFlusher,
          sinkIsHijacker, plugin, cc, rw, last, written, calls>>

(* ------------------------------ strings -------------------------------- *)
DigitChars == <<"0", "1", "2", "3", "4", "5", "6", "7", "8", "9">>

\* strconv.Itoa for the non-negative codes
RECURSIVE Itoa(_)
Itoa(n) ==
  IF n < 10 THEN << DigitChars[n + 1] >>
  ELSE Append(Itoa(n \div 10), DigitChars[(n % 10) + 1])

\* strings.ReplaceAll for a non-empty old: non-overlapping, left to right
RECURSIVE ReplaceAll(_, _, _)
ReplaceAll(s, old, new) ==
  IF Len(s) < Len(old) THEN s
  ELSE IF SubSeq(s, 1, Len(old)) = old
       THEN new \o ReplaceAll(SubSeq(s, Len(old) + 1, Len(s)), old, new)
       ELSE << Head(s) >> \o ReplaceAll(Tail(s), old, new)

\* url.QueryEscape: letters, digits and - _ . ~ are kept, a space becomes
\* "+", every other byte becomes %XX
Unreserved ==
  {"a", "b", "c", "d", "h", "l", "p", "s", "t", "u", "x",
   "0", "1", "2", "3", "4", "5", "6", "7", "8", "9", "-", "_", ".", "~"}
EscapeChar(c) ==
  IF c \in Unreserved THEN << c >>
  ELSE IF c = " " THEN << "+" >>
  ELSE IF c = ":" THEN << "%", "3", "A" >>
  ELSE IF c = "/" THEN << "%", "2", "F" >>
  ELSE IF c = "?" THEN << "%", "3", "F" >>
  ELSE IF c = "=" THEN << "%", "3", "D" >>
  ELSE IF c = "{" THEN << "%", "7", "B" >>
  ELSE IF c = "}" THEN << "%", "7", "D" >>
  ELSE IF c = "&" THEN << "%", "2", "6" >>
  ELSE << "%", "2", "5" >>

RECURSIVE QueryEscape(_)
QueryEscape(s) ==
  IF s = << >> THEN << >> ELSE EscapeChar(Head(s)) \o QueryEscape(Tail(s))

StatusPlaceholder == <<"{", "s", "t", "a", "t", "u", "s", "}">>
URLPlaceholder == <<"{", "u", "r", "l", "}">>

\* http.StatusText for the statuses ServeHTTP uses
StatusText(status) ==
  IF status = StatusFound THEN <<"F", "o", "u", "n", "d">>
  ELSE IF status = StatusTemporaryRedirect
       THEN <<"T", "e", "m", "p", "o", "r", "a", "r", "y", " ",
              "R", "e", "d", "i", "r", "e", "c", "t">>
  ELSE << >>

(* --------------------------- the real writer --------------------------- *)
\* results a Write of the real writer may return for buf: all of it and no
\* error, or a count of 0 or 1 and an error
SinkWriteResults(buf) ==
  { <<Len(buf), "nil">> }
    \cup { <<n, SinkErr>> : n \in 0..Min(Len(buf), 1) }

\* rw.WriteHeader(code)
SinkWriteHeader(w, code) ==
  [w EXCEPT !.log = Append(@, <<"WriteHeader", code>>)]

\* rw.Write(buf) returning res
SinkWrite(w, buf, res) ==
  [w EXCEPT !.log = Append(@, <<"Write", Len(buf)>>),
            !.writes = Append(@, buf),
            !.ret = res]

\* flusher.Flush()
SinkFlush(w) ==
  [w EXCEPT !.log = Append(@, <<"Flush", 0>>)]

\* results a Hijack of the real writer may return: a connection, or an error
SinkHijackResults == { <<1, "nil">>, <<0, SinkErr>> }

\* hj.Hijack() returning res
SinkHijack(w, res) ==
  [w EXCEPT !.log = Append(@, <<"Hijack", 0>>), !.ret = res]

(* ----------------------------- codeCatcher ----------------------------- *)
\* newCodeCatcher: an empty header map, code 200, both flags false
newCodeCatcher ==
  [headerMap |-> EmptyHeader,
   code |-> StatusOK,
   caughtFilteredCode |-> FALSE,
   headersSent |-> FALSE]

getCode(c) == c.code

isFilteredCode(c) == c.caughtFilteredCode

\* copyHeaders that overrides the values of the destination
copyHeaders_Overrides(dst, src) ==
  [k \in HeaderKeys |-> IF src[k] # << >> THEN src[k] ELSE dst[k]]

\* copyHeaders: dst[k] = append(dst[k], vv...) for every key of src
copyHeaders(dst, src) ==
  [k \in HeaderKeys |-> dst[k] \o src[k]]

\* the loop with the high bound of a block left out
RECURSIVE inBlocks_ExcludesHigh(_, _)
inBlocks_ExcludesHigh(blocks, code) ==
  IF blocks = << >> THEN FALSE
  ELSE IF code >= Head(blocks)[1] /\ code < Head(blocks)[2] THEN TRUE
  ELSE inBlocks_ExcludesHigh(Tail(blocks), code)

\* the loop of WriteHeader over the blocks, in order, stopping at the first
\* block that holds the code
RECURSIVE inBlocks(_, _)
inBlocks(blocks, code) ==
  IF blocks = << >> THEN FALSE
  ELSE IF code >= Head(blocks)[1] /\ code <= Head(blocks)[2] THEN TRUE
  ELSE inBlocks(Tail(blocks), code)

\* WriteHeader whose guard tests headersSent only
WriteHeader_GuardSentOnly(st, code) ==
  IF st.cc.headersSent THEN st
  ELSE LET c1 == [st.cc EXCEPT !.code = code]
       IN  IF inBlocks(httpCodeRanges, c1.code)
           THEN [st EXCEPT !.cc = [c1 EXCEPT !.caughtFilteredCode = TRUE]]
           ELSE [cc |-> [c1 EXCEPT !.headersSent = TRUE],
                 rw |-> SinkWriteHeader(
                          [st.rw EXCEPT
                             !.header = copyHeaders(@, c1.headerMap),
                             !.log = Append(@, <<"CopyHeaders", 0>>)],
                          c1.code)]

\* WriteHeader that records the code before its guard
WriteHeader_CodeBeforeGuard(st, code) ==
  LET c1 == [st.cc EXCEPT !.code = code]
  IN  IF st.cc.headersSent \/ st.cc.caughtFilteredCode
      THEN [st EXCEPT !.cc = c1]
      ELSE IF inBlocks(httpCodeRanges, c1.code)
           THEN [st EXCEPT !.cc = [c1 EXCEPT !.caughtFilteredCode = TRUE]]
           ELSE [cc |-> [c1 EXCEPT !.headersSent = TRUE],
                 rw |-> SinkWriteHeader(
                          [st.rw EXCEPT
                             !.header = copyHeaders(@, c1.headerMap),
                             !.log = Append(@, <<"CopyHeaders", 0>>)],
                          c1.code)]

\* WriteHeader that copies the captured headers also for a filtered code
WriteHeader_CopiesWhenCaught(st, code) ==
  IF st.cc.headersSent \/ st.cc.caughtFilteredCode THEN st
  ELSE LET c1 == [st.cc EXCEPT !.code = code]
           w1 == [st.rw EXCEPT !.header = copyHeaders(@, c1.headerMap),
                               !.log = Append(@, <<"CopyHeaders", 0>>)]
       IN  IF inBlocks(httpCodeRanges, c1.code)
           THEN [cc |-> [c1 EXCEPT !.caughtFilteredCode = TRUE], rw |-> w1]
           ELSE [cc |-> [c1 EXCEPT !.headersSent = TRUE],
                 rw |-> SinkWriteHeader(w1, c1.code)]

\* WriteHeader that never sets headersSent
WriteHeader_NeverMarksSent(st, code) ==
  IF st.cc.headersSent \/ st.cc.caughtFilteredCode THEN st
  ELSE LET c1 == [st.cc EXCEPT !.code = code]
       IN  IF inBlocks(httpCodeRanges, c1.code)
           THEN [st EXCEPT !.cc = [c1 EXCEPT !.caughtFilteredCode = TRUE]]
           ELSE [cc |-> c1,
                 rw |-> SinkWriteHeader(
                          [st.rw EXCEPT
                             !.header = copyHeaders(@, c1.headerMap),
                             !.log = Append(@, <<"CopyHeaders", 0>>)],
                          c1.code)]

\* codeCatcher.WriteHeader on the pair st = [cc, rw]
WriteHeader(st, code) ==
  IF st.cc.headersSent \/ st.cc.caughtFilteredCode THEN st
  ELSE LET c1 == [st.cc EXCEPT !.code = code]
       IN  IF inBlocks(httpCodeRanges, c1.code)
           THEN [st EXCEPT !.cc = [c1 EXCEPT !.caughtFilteredCode = TRUE]]
           ELSE [cc |-> [c1 EXCEPT !.headersSent = TRUE],
                 rw |-> SinkWriteHeader(
                          [st.rw EXCEPT
                             !.header = copyHeaders(@, c1.headerMap),
                             !.log = Append(@, <<"CopyHeaders", 0>>)],
                          c1.code)]

\* Write that forwards the buffer also when a filtered code was caught
Write_ForwardsWhenCaught(st, buf, res) ==
  LET s1 == WriteHeader(st, st.cc.code)
  IN  [cc |-> s1.cc, rw |-> SinkWrite(s1.rw, buf, res),
       ret |-> IF s1.cc.caughtFilteredCode THEN <<Len(buf), "nil">> ELSE res]

\* Write that reports the whole buffer written whatever the real writer
\* returned
Write_ReportsFullLength(st, buf, res) ==
  LET s1 == WriteHeader(st, st.cc.code)
  IN  IF s1.cc.caughtFilteredCode
      THEN [cc |-> s1.cc, rw |-> s1.rw, ret |-> <<Len(buf), "nil">>]
      ELSE [cc |-> s1.cc, rw |-> SinkWrite(s1.rw, buf, res),
            ret |-> <<Len(buf), "nil">>]

\* codeCatcher.Write: the pair after the call and the returned (n, err);
\* res is what the real writer returns if the buffer is forwarded
Write(st, buf, res) ==
  LET s1 == WriteHeader(st, st.cc.code)
  IN  IF s1.cc.caughtFilteredCode
      THEN [cc |-> s1.cc, rw |-> s1.rw, ret |-> <<Len(buf), "nil">>]
      ELSE [cc |-> s1.cc, rw |-> SinkWrite(s1.rw, buf, res), ret |-> res]

\* Flush that forwards the flush before the implicit WriteHeader
Flush_BeforeWriteHeader(st) ==
  LET s0 == IF sinkIsFlusher THEN [st EXCEPT !.rw = SinkFlush(@)] ELSE st
  IN  WriteHeader(s0, s0.cc.code)

\* codeCatcher.Flush
Flush(st) ==
  LET s1 == WriteHeader(st, st.cc.code)
  IN  IF sinkIsFlusher THEN [s1 EXCEPT !.rw = SinkFlush(@)] ELSE s1

\* cc.Header().Set / Add / Del: Header() always returns cc.headerMap
HeaderMutate(c, op, k, v) ==
  [c EXCEPT !.headerMap[k] =
     IF op = "Set" THEN << v >>
     ELSE IF op = "Add" THEN Append(@, v)
     ELSE << >>]

\* Hijack that commits the captured code first, as Write and Flush do
Hijack_CommitsFirst(st, res) ==
  LET s1 == WriteHeader(st, st.cc.code)
  IN  IF sinkIsHijacker
      THEN [cc |-> s1.cc, rw |-> SinkHijack(s1.rw, res), ret |-> res]
      ELSE [cc |-> s1.cc, rw |-> s1.rw, ret |-> <<0, NotHijackerErr>>]

\* codeCatcher.Hijack: the pair after the call and the returned
\* (connection, err); res is what the real writer's Hijack returns
Hijack(st, res) ==
  IF sinkIsHijacker
  THEN [cc |-> st.cc, rw |-> SinkHijack(st.rw, res), ret |-> res]
  ELSE [cc |-> st.cc, rw |-> st.rw, ret |-> <<0, NotHijackerErr>>]

(* --------------------------- status code ranges ------------------------ *)
IsDigit(c) == \E i \in 1..10 : DigitChars[i] = c

DigitValue(c) == (CHOOSE i \in 1..10 : DigitChars[i] = c) - 1

\* a well-formed integer: one or more decimal digits
IsNumber(s) == Len(s) > 0 /\ \A i \in 1..Len(s) : IsDigit(s[i])

RECURSIVE NumberValue(_)
NumberValue(s) ==
  IF s = << >> THEN 0
  ELSE NumberValue(SubSeq(s, 1, Len(s) - 1)) * 10 + DigitValue(s[Len(s)])

\* the tokens of a spec between its dashes
RECURSIVE SplitDash(_)
SplitDash(s) ==
  IF \A i \in 1..Len(s) : s[i] # "-" THEN << s >>
  ELSE LET i == CHOOSE j \in 1..Len(s) :
                  s[j] = "-" /\ \A k \in 1..(j - 1) : s[k] # "-"
       IN  << SubSeq(s, 1, i - 1) >> \o SplitDash(SubSeq(s, i + 1, Len(s)))

\* types.NewHTTPCodeRanges: "N" is [N, N], "A-B" is [A, B], anything else
\* is an error; the blocks keep the order of the specs
RECURSIVE NewHTTPCodeRanges(_)
NewHTTPCodeRanges(strBlocks) ==
  IF strBlocks = << >> THEN [ranges |-> << >>, err |-> "nil"]
  ELSE LET codes == SplitDash(Head(strBlocks))
           rest == NewHTTPCodeRanges(Tail(strBlocks))
       IN  IF Len(codes) > 2 \/ \E i \in 1..Len(codes) : ~IsNumber(codes[i])
           THEN [ranges |-> << >>, err |-> ParseErr]
           ELSE IF rest.err # "nil" THEN rest
           ELSE [ranges |->
                   << << NumberValue(codes[1]),
                         NumberValue(codes[Len(codes)]) >> >> \o rest.ranges,
                 err |-> "nil"]

(* ---------------------------- redirectStatus --------------------------- *)
\* New that returns the middleware although the ranges did not parse
New_IgnoresParseError(config) ==
  LET parsed == NewHTTPCodeRanges(config.Status)
  IN  [handler |-> "redirectStatus", err |-> parsed.err,
       httpCodeRanges |-> parsed.ranges, to |-> config.To]

\* New: the returned (handler, err) and the fields of the handler
New(config) ==
  LET parsed == NewHTTPCodeRanges(config.Status)
  IN  IF parsed.err # "nil"
      THEN [handler |-> "nil", err |-> parsed.err,
            httpCodeRanges |-> << >>, to |-> << >>]
      ELSE [handler |-> "redirectStatus", err |-> "nil",
            httpCodeRanges |-> parsed.ranges, to |-> config.To]

\* the first occurrence of old replaced, the rest of s kept
RECURSIVE ReplaceFirst(_, _, _)
ReplaceFirst(s, old, new) ==
  IF Len(s) < Len(old) THEN s
  ELSE IF SubSeq(s, 1, Len(old)) = old
       THEN new \o SubSeq(s, Len(old) + 1, Len(s))
       ELSE << Head(s) >> \o ReplaceFirst(Tail(s), old, new)

\* the target with only the first occurrence of each placeholder replaced
RedirectTarget_FirstOccurrenceOnly(tmpl, code, url) ==
  IF Len(tmpl) > 0
  THEN ReplaceFirst(ReplaceFirst(tmpl, StatusPlaceholder, Itoa(code)),
                    URLPlaceholder, QueryEscape(url))
  ELSE << >>

\* the target computed by ServeHTTP
RedirectTarget(tmpl, code, url) ==
  IF Len(tmpl) > 0
  THEN ReplaceAll(ReplaceAll(tmpl, StatusPlaceholder, Itoa(code)),
                  URLPlaceholder, QueryEscape(url))
  ELSE << >>

\* the redirect status with the method test inverted
RedirectStatus_Inverted(m) ==
  IF m = "GET" THEN StatusTemporaryRedirect ELSE StatusFound

\* the redirect status chosen by ServeHTTP
RedirectStatus(m) ==
  IF m # "GET" THEN StatusTemporaryRedirect ELSE StatusFound

\* http.Error(rw, msg, code): content headers, the status, the message and
\* a newline; the result of its write is dropped
HttpError(w, msg, code, res) ==
  LET w1 == [w EXCEPT !.header["Content-Type"] = << <<"t">> >>,
                      !.header["X-Content-Type-Options"] = << <<"n">> >>,
                      !.log = Append(@, <<"SetHeader", 0>>)]
  IN  SinkWrite(SinkWriteHeader(w1, code), Append(msg, "\n"), res)

\* ServeHTTP that adds the Location value instead of setting it
ServeHTTPAfterNext_AddsLocation(st, res, res2) ==
  IF ~isFilteredCode(st.cc) THEN st.rw
  ELSE LET code == getCode(st.cc)
           target == RedirectTarget(to, code, reqURL)
           w1 == [st.rw EXCEPT !.header["Location"] = Append(@, target),
                               !.log = Append(@, <<"SetHeader", 0>>)]
           status == RedirectStatus(method)
           w2 == SinkWriteHeader(w1, status)
           w3 == SinkWrite(w2, StatusText(status), res)
       IN  IF res[2] # "nil"
           THEN HttpError(w3, SinkErrText, StatusInternalServerError, res2)
           ELSE w3

\* ServeHTTP without the return on a code that was not filtered
ServeHTTPAfterNext_NoEarlyReturn(st, res, res2) ==
  LET code == getCode(st.cc)
      target == RedirectTarget(to, code, reqURL)
      w1 == [st.rw EXCEPT !.header["Location"] = << target >>,
                          !.log = Append(@, <<"SetHeader", 0>>)]
      status == RedirectStatus(method)
      w2 == SinkWriteHeader(w1, status)
      w3 == SinkWrite(w2, StatusText(status), res)
  IN  IF res[2] # "nil"
      THEN HttpError(w3, SinkErrText, StatusInternalServerError, res2)
      ELSE w3

\* ServeHTTP that drops the error of the redirect body write
ServeHTTPAfterNext_DropsWriteError(st, res, res2) ==
  IF ~isFilteredCode(st.cc) THEN st.rw
  ELSE LET code == getCode(st.cc)
           target == RedirectTarget(to, code, reqURL)
           w1 == [st.rw EXCEPT !.header["Location"] = << target >>,
                               !.log = Append(@, <<"SetHeader", 0>>)]
           status == RedirectStatus(method)
           w2 == SinkWriteHeader(w1, status)
       IN  SinkWrite(w2, StatusText(status), res)

\* ServeHTTP that commits the redirect status before it sets Location
ServeHTTPAfterNext_StatusBeforeLocation(st, res, res2) ==
  IF ~isFilteredCode(st.cc) THEN st.rw
  ELSE LET code == getCode(st.cc)
           target == RedirectTarget(to, code, reqURL)
           status == RedirectStatus(method)
           w1 == SinkWriteHeader(st.rw, status)
           w2 == [w1 EXCEPT !.header["Location"] = << target >>,
                            !.log = Append(@, <<"SetHeader", 0>>)]
           w3 == SinkWrite(w2, StatusText(status), res)
       IN  IF res[2] # "nil"
           THEN HttpError(w3, SinkErrText, StatusInternalServerError, res2)
           ELSE w3

\* ServeHTTP after the upstream handler has returned: the real writer when
\* ServeHTTP returns; res and res2 are the results of the real writer's
\* writes of the redirect body and of the error body
ServeHTTPAfterNext(st, res, res2) ==
  IF ~isFilteredCode(st.cc) THEN st.rw
  ELSE LET code == getCode(st.cc)
           target == RedirectTarget(to, code, reqURL)
           w1 == [st.rw EXCEPT !.header["Location"] = << target >>,
                               !.log = Append(@, <<"SetHeader", 0>>)]
           status == RedirectStatus(method)
           w2 == SinkWriteHeader(w1, status)
           w3 == SinkWrite(w2, StatusText(status), res)
       IN  IF res[2] # "nil"
           THEN HttpError(w3, SinkErrText, StatusInternalServerError, res2)
           ELSE w3

(* ------------------------------- actions ------------------------------- *)
NoCall ==
  [op |-> "none", arg |-> 0, buf |-> << >>, ret |-> <<0, "nil">>,
   hdr |-> << >>]

\* the request, the real writer and the zero codeCatcher before ServeHTTP
InitRequest(methods, urls, flushers, hijackers, presets) ==
  /\ method \in methods
  /\ reqURL \in urls
  /\ sinkIsFlusher \in flushers
  /\ sinkIsHijacker \in hijackers
  /\ cc = newCodeCatcher
  /\ \E h \in presets :
       rw = [header |-> h, log |-> << >>, writes |-> << >>,
             ret |-> <<0, "nil">>]
  /\ last = NoCall
  /\ written = << >>
  /\ calls = 0

\* the state New leaves for a Config that parses
InitBuilt(statuses, templates) ==
  /\ pc = "idle"
  /\ \E config \in [Status : statuses, To : templates] :
       LET r == New(config)
       IN  /\ r.err = "nil"
           /\ httpCodeRanges = r.httpCodeRanges
           /\ to = r.to
           /\ plugin = [config |-> config, handler |-> r.handler,
                        err |-> r.err]

\* New has built the middleware; the real writer is no http.Hijacker
Init ==
  /\ InitBuilt(ValidStatuses, Templates)
  /\ httpCodeRanges \in RangeSets
  /\ to \in Templates
  /\ InitRequest(Methods, URLs, BOOLEAN, {FALSE}, PresetHeaders)

\* New is called with the Config
CallNew ==
  /\ pc = "new"
  /\ LET r == New(plugin.config)
     IN  /\ plugin' = [plugin EXCEPT !.handler = r.handler, !.err = r.err]
         /\ httpCodeRanges' = r.httpCodeRanges
         /\ to' = r.to
         /\ pc' = IF r.err # "nil" THEN "failed" ELSE "idle"
  /\ UNCHANGED <<method, reqURL, sinkIsFlusher, sinkIsHijacker, cc, rw,
                 last, written, calls>>

\* ServeHTTP wraps rw and invokes the upstream handler
ServeHTTPBegin ==
  /\ pc = "idle"
  /\ pc' = "handler"
  /\ cc' = newCodeCatcher
  /\ UNCHANGED <<httpCodeRanges, to, method, reqURL, sinkIsFlusher,
                 sinkIsHijacker, plugin, rw,
                 last, written, calls>>

\* the upstream handler calls WriteHeader(code) on the interceptor
HandlerWriteHeader ==
  /\ pc = "handler"
  /\ calls < MaxCalls
  /\ \E code \in Codes :
       LET s1 == WriteHeader([cc |-> cc, rw |-> rw], code)
       IN  /\ cc' = s1.cc
           /\ rw' = s1.rw
           /\ last' = [NoCall EXCEPT !.op = "WriteHeader", !.arg = code]
  /\ calls' = calls + 1
  /\ UNCHANGED <<pc, httpCodeRanges, to, method, reqURL, sinkIsFlusher,
                 sinkIsHijacker, plugin,
                 written>>

\* the results the real writer may give to a Write(buf) of the handler: it
\* is asked only if the call is forwarded
WriteOutcomes(buf) ==
  IF Write([cc |-> cc, rw |-> rw], buf, <<Len(buf), "nil">>).rw = rw
  THEN { <<Len(buf), "nil">> }
  ELSE SinkWriteResults(buf)

\* the upstream handler calls Write(buf) on the interceptor
HandlerWrite ==
  /\ pc = "handler"
  /\ calls < MaxCalls
  /\ \E buf \in Buffers : \E res \in WriteOutcomes(buf) :
       LET r == Write([cc |-> cc, rw |-> rw], buf, res)
       IN  /\ cc' = r.cc
           /\ rw' = r.rw
           /\ last' = [NoCall EXCEPT !.op = "Write", !.buf = buf,
                                     !.ret = r.ret]
           /\ written' = Append(written, buf)
  /\ calls' = calls + 1
  /\ UNCHANGED <<pc, httpCodeRanges, to, method, reqURL, sinkIsFlusher,
                 sinkIsHijacker, plugin>>

\* the upstream handler calls Flush() on the interceptor
HandlerFlush ==
  /\ pc = "handler"
  /\ calls < MaxCalls
  /\ LET s1 == Flush([cc |-> cc, rw |-> rw])
     IN  /\ cc' = s1.cc
         /\ rw' = s1.rw
  /\ last' = [NoCall EXCEPT !.op = "Flush"]
  /\ calls' = calls + 1
  /\ UNCHANGED <<pc, httpCodeRanges, to, method, reqURL, sinkIsFlusher,
                 sinkIsHijacker, plugin,
                 written>>

\* the upstream handler mutates the map returned by Header()
HandlerHeader ==
  /\ pc = "handler"
  /\ calls < MaxCalls
  /\ \E op \in {"Set", "Add", "Del"}, k \in HandlerKeys, v \in HeaderValues :
       /\ cc' = HeaderMutate(cc, op, k, v)
       /\ last' = [NoCall EXCEPT !.op = "Header", !.hdr = <<op, k, v>>]
  /\ calls' = calls + 1
  /\ UNCHANGED <<pc, httpCodeRanges, to, method, reqURL, sinkIsFlusher,
                 sinkIsHijacker, plugin, rw,
                 written>>

\* the results the real writer may give to a Hijack() of the handler: it
\* is asked only if the call is forwarded
HijackOutcomes ==
  IF Hijack([cc |-> cc, rw |-> rw], <<1, "nil">>).rw = rw
  THEN { <<1, "nil">> }
  ELSE SinkHijackResults

\* the upstream handler calls Hijack() on the interceptor
HandlerHijack ==
  /\ pc = "handler"
  /\ calls < MaxCalls
  /\ \E res \in HijackOutcomes :
       LET r == Hijack([cc |-> cc, rw |-> rw], res)
       IN  /\ cc' = r.cc
           /\ rw' = r.rw
           /\ last' = [NoCall EXCEPT !.op = "Hijack", !.ret = r.ret]
  /\ calls' = calls + 1
  /\ UNCHANGED <<pc, httpCodeRanges, to, method, reqURL, sinkIsFlusher,
                 sinkIsHijacker, plugin, written>>

\* the results the real writer may give to the write of the redirect body:
\* it is asked only if ServeHTTP writes the redirect
RedirectOutcomes ==
  LET body == StatusText(RedirectStatus(method))
  IN  IF ServeHTTPAfterNext([cc |-> cc, rw |-> rw], <<Len(body), "nil">>,
                            <<0, "nil">>) = rw
      THEN { <<Len(body), "nil">> }
      ELSE SinkWriteResults(body)

\* the results the real writer may give to the write of http.Error: it is
\* asked only if the redirect body write returned the error res
ErrorOutcomes(res) ==
  IF res[2] = "nil" THEN { <<0, "nil">> }
  ELSE { <<Len(SinkErrText) + 1, "nil">>, <<0, SinkErr>> }

\* the upstream handler returns and ServeHTTP runs to its end
ServeHTTPFinish ==
  /\ pc = "handler"
  /\ pc' = "done"
  /\ \E res \in RedirectOutcomes : \E res2 \in ErrorOutcomes(res) :
         /\ rw' = ServeHTTPAfterNext([cc |-> cc, rw |-> rw], res, res2)
         /\ last' = IF isFilteredCode(cc)
                    THEN [NoCall EXCEPT !.op = "ServeHTTP", !.ret = res]
                    ELSE NoCall
  /\ UNCHANGED <<httpCodeRanges, to, method, reqURL, sinkIsFlusher,
                 sinkIsHijacker, plugin, cc,
                 written, calls>>

Next ==
  \/ ServeHTTPBegin
  \/ HandlerWriteHeader
  \/ HandlerWrite
  \/ HandlerFlush
  \/ HandlerHeader
  \/ HandlerHijack
  \/ ServeHTTPFinish

Spec == Init /\ [][Next]_vars

\* New is still to be called, with a Config that parses or one that does not
InitNew ==
  /\ pc = "new"
  /\ \E config \in [Status : ValidStatuses \cup MalformedStatuses,
                     To : { <<"h", ":", "/", "l">> }] :
       plugin = [config |-> config, handler |-> "unset", err |-> "nil"]
  /\ httpCodeRanges = << >>
  /\ to = << >>
  /\ InitRequest({"GET"}, URLs, {TRUE}, {FALSE}, {EmptyHeader})

NextNew == CallNew \/ Next

SpecNew == InitNew /\ [][NextNew]_vars

\* the real writer may or may not be an http.Hijacker
InitHijack ==
  /\ InitBuilt(ValidStatuses, { <<"h", ":", "/", "l">> })
  /\ InitRequest({"GET"}, URLs, BOOLEAN, BOOLEAN, PresetHeaders)

SpecHijack == InitHijack /\ [][Next]_vars

\* the templates and URLs that exercise the substitution
InitTarget ==
  /\ InitBuilt({ << <<"4", "0", "1", "-", "4", "0", "3">> >> },
               TargetTemplates)
  /\ InitRequest({"GET"}, TargetURLs, {FALSE}, {FALSE}, {EmptyHeader})

SpecTarget == InitTarget /\ [][Next]_vars

TypeOK ==
  /\ pc \in {"new", "failed", "idle", "handler", "done"}
  /\ calls \in 0..MaxCalls
  /\ cc.code \in Codes
  /\ cc.caughtFilteredCode \in BOOLEAN
  /\ cc.headersSent \in BOOLEAN

(* ------------------------- vocabulary of the claims -------------------- *)
\* the interception state of a codeCatcher
IState(c) ==
  IF c.caughtFilteredCode /\ c.headersSent THEN "Both"
  ELSE IF c.caughtFilteredCode THEN "Suppressed"
  ELSE IF c.headersSent THEN "PassThrough"
  ELSE "Open"

\* membership in a range set: some block [lo, hi] with lo <= code <= hi
Contains(set, code) ==
  \E i \in 1..Len(set) : set[i][1] <= code /\ code <= set[i][2]

\* the codes passed to the real writer's WriteHeader, in order
StatusCommits(log) ==
  LET commits == SelectSeq(log, LAMBDA e : e[1] = "WriteHeader")
  IN  [i \in 1..Len(commits) |-> commits[i][2]]

\* number of Flush calls made on the real writer
FlushCount(log) == Len(SelectSeq(log, LAMBDA e : e[1] = "Flush"))

\* p occurs in s as a contiguous run
Occurs(s, p) ==
  \E i \in 1..(Len(s) - Len(p) + 1) : SubSeq(s, i, i + Len(p) - 1) = p

NoPlaceholder(tmpl) ==
  ~Occurs(tmpl, StatusPlaceholder) /\ ~Occurs(tmpl, URLPlaceholder)

(* -------------------------------- claims ------------------------------- *)
\* C1: when the upstream handler has returned, the interceptor is
\* Suppressed exactly if the captured code is in the configured range set,
\* and is PassThrough (headers sent) otherwise.  The handler that returns
\* without any call leaves the interceptor Open with code 200.
C1_SuppressedIffCodeInRanges ==
  pc = "done" =>
    /\ isFilteredCode(cc) <=> Contains(httpCodeRanges, getCode(cc))
    /\ ~isFilteredCode(cc) => cc.headersSent

\* C2: a Write that leaves the interceptor Suppressed (it was Suppressed
\* already, or this Write committed a default 200 that is in the range set)
\* returns (len(buf), nil) and makes no call on the real writer, which has
\* received no byte of the upstream handler.
C2_SuppressedWriteDiscards ==
  [][ (last'.op = "Write" /\ cc'.caughtFilteredCode) =>
        /\ rw' = rw
        /\ rw'.writes = << >>
        /\ last'.ret = <<Len(last'.buf), "nil">> ]_vars

C2_Witness ==
  /\ pc = "handler"
  /\ last.op = "Write"
  /\ cc.caughtFilteredCode
  /\ cc.code = 200
  /\ Len(written) = 2
  /\ Len(written[1]) > 0
  /\ calls = 2

\* C3: in PassThrough the buffers received by the real writer's Write are
\* the buffers the upstream handler wrote, in order, and a Write of the
\* interceptor returns the count and error the real writer returned.
C3_PassThroughForwardsVerbatim ==
  cc.headersSent =>
    /\ rw.writes = written
    /\ last.op = "Write" => last.ret = rw.ret

C3_Witness ==
  /\ cc.headersSent
  /\ Len(written) = 2
  /\ written[1] # written[2]
  /\ last.op = "Write"
  /\ last.ret[2] = SinkErr
  /\ last.ret[1] < Len(last.buf)

\* C4: on a suppressed request the first status ServeHTTP commits on the
\* real writer, which is the first status committed on it at all, is 302
\* for GET and 307 for any other method.
C4_RedirectStatusByMethod ==
  (pc = "done" /\ cc.caughtFilteredCode) =>
    /\ Len(StatusCommits(rw.log)) >= 1
    /\ StatusCommits(rw.log)[1] = IF method = "GET" THEN 302 ELSE 307

C4_Witness ==
  /\ pc = "done"
  /\ cc.caughtFilteredCode
  /\ method = "POST"
  /\ cc.code = 404
  /\ StatusCommits(rw.log) = << 307 >>

\* C5: on a suppressed request the real writer's Location header holds
\* exactly one value, the computed target, whatever Location it held before
\* and whatever headers the upstream handler set on the interceptor; for a
\* template without placeholders that value is the template itself.
C5_LocationIsTheTarget ==
  (pc = "done" /\ cc.caughtFilteredCode) =>
    /\ rw.header["Location"] = << RedirectTarget(to, cc.code, reqURL) >>
    /\ NoPlaceholder(to) => rw.header["Location"] = << to >>

C5_Witness ==
  /\ pc = "done"
  /\ cc.caughtFilteredCode
  /\ rw.header["X-A"] = << <<"o">> >>
  /\ cc.headerMap["Location"] = << <<"v">> >>
  /\ to = <<"h", ":", "/", "l">>
  /\ rw.header["Location"] = << to >>

\* C6: when the interceptor is not Suppressed as the upstream handler
\* returns, ServeHTTP leaves the real writer as the handler left it: no
\* header, status or body of its own.
C6_NotSuppressedLeavesSinkAlone ==
  [][ (pc = "handler" /\ pc' = "done" /\ ~cc.caughtFilteredCode) =>
        rw' = rw ]_vars

C6_Witness ==
  /\ pc = "done"
  /\ ~cc.caughtFilteredCode
  /\ StatusCommits(rw.log) = << 200 >>
  /\ rw.writes = << <<"a">> >>
  /\ rw.header["Location"] = << >>

\* C7: the interception state is Open when the upstream handler starts; a
\* WriteHeader, Write or Flush leaves it non-Open; once non-Open it never
\* changes again, and headersSent and caughtFilteredCode are never both
\* true.
C7_LeavesOpenOnce ==
  [][ /\ (pc = "idle" /\ pc' = "handler") => IState(cc') = "Open"
      /\ last'.op \in {"WriteHeader", "Write", "Flush"}
           => IState(cc') # "Open"
      /\ (pc = "handler" /\ IState(cc) # "Open") => IState(cc') = IState(cc)
      /\ IState(cc') # "Both" ]_vars

C7_Witness ==
  /\ calls >= 2
  /\ last.op = "WriteHeader"
  /\ IState(cc) = "Suppressed"
  /\ ~Contains(httpCodeRanges, last.arg)

\* C8: a WriteHeader(code') made when the state is not Open changes
\* nothing: the captured code and the state stay, and no call is made on
\* the real writer.
C8_LaterWriteHeaderIsNoop ==
  [][ (pc = "handler" /\ IState(cc) # "Open" /\ last'.op = "WriteHeader")
        => (cc' = cc /\ rw' = rw) ]_vars

C8_Witness ==
  /\ calls >= 2
  /\ last.op = "WriteHeader"
  /\ IState(cc) = "PassThrough"
  /\ Contains(httpCodeRanges, last.arg)
  /\ cc.code # last.arg
  /\ Len(StatusCommits(rw.log)) = 1

\* C9: a Flush that leaves the interceptor Suppressed makes no call on the
\* real writer, whether or not the real writer is an http.Flusher.
C9_SuppressedFlushIsNoop ==
  [][ (last'.op = "Flush" /\ cc'.caughtFilteredCode) => rw' = rw ]_vars

\* C10: a Flush made while Open commits the default code 200 first:
\* Suppressed with no status sent if 200 is in the range set, otherwise
\* PassThrough with the captured headers copied and status 200 committed on
\* the real writer ahead of the forwarded flush.  A Flush made when the
\* state is not Open changes neither the state nor the captured code.
C10_FlushCommitsDefaultFirst ==
  [][ last'.op = "Flush" =>
        IF IState(cc) = "Open"
        THEN /\ cc'.code = 200
             /\ Contains(httpCodeRanges, 200) =>
                  /\ IState(cc') = "Suppressed"
                  /\ StatusCommits(rw'.log) = << >>
             /\ ~Contains(httpCodeRanges, 200) =>
                  /\ IState(cc') = "PassThrough"
                  /\ rw'.log = << <<"CopyHeaders", 0>>, <<"WriteHeader", 200>> >>
                       \o (IF sinkIsFlusher THEN << <<"Flush", 0>> >>
                           ELSE << >>)
        ELSE IState(cc') = IState(cc) /\ cc'.code = cc.code ]_vars

C10_Witness ==
  /\ last.op = "Flush"
  /\ calls = 2
  /\ IState(cc) = "PassThrough"
  /\ cc.headerMap["X-A"] # << >>
  /\ rw.header["X-A"] # << >>
  /\ sinkIsFlusher
  /\ rw.log[Len(rw.log)] = <<"Flush", 0>>

\* C11: while the upstream handler runs and the interceptor is Suppressed,
\* no step changes the header map of the real writer and no status has been
\* committed on it, so the headers captured by the interceptor stay off the
\* real writer.
C11_SuppressedLeavesRealHeaders ==
  [][ (pc' = "handler" /\ cc'.caughtFilteredCode) =>
        /\ rw'.header = rw.header
        /\ rw'.header \in PresetHeaders
        /\ StatusCommits(rw'.log) = << >> ]_vars

C11_Witness ==
  /\ pc = "handler"
  /\ calls = 3
  /\ IState(cc) = "Suppressed"
  /\ last.op = "Flush"
  /\ cc.headerMap["X-A"] = << <<"v">> >>
  /\ rw.header["X-A"] = << >>

\* C12: the step that takes the interceptor from Open to PassThrough
\* leaves, for every key, the values the real writer had followed by the
\* captured values, and commits one status on the real writer, the captured
\* code (the argument of an explicit WriteHeader).
C12_PassThroughCopiesAdditively ==
  [][ (IState(cc) = "Open" /\ IState(cc') = "PassThrough") =>
        /\ \A k \in HeaderKeys :
             /\ Len(rw'.header[k]) = Len(rw.header[k]) + Len(cc.headerMap[k])
             /\ \A i \in 1..Len(rw.header[k]) :
                  rw'.header[k][i] = rw.header[k][i]
             /\ \A i \in 1..Len(cc.headerMap[k]) :
                  rw'.header[k][Len(rw.header[k]) + i] = cc.headerMap[k][i]
        /\ StatusCommits(rw.log) = << >>
        /\ StatusCommits(rw'.log) = << cc'.code >>
        /\ last'.op = "WriteHeader" => cc'.code = last'.arg ]_vars

C12_Witness ==
  /\ IState(cc) = "PassThrough"
  /\ last.op = "WriteHeader"
  /\ last.arg = 400
  /\ calls = 2
  /\ rw.header["X-A"] = << <<"o">>, <<"v">> >>
  /\ rw.header["Location"] = << <<"o">> >>
  /\ StatusCommits(rw.log) = << 400 >>

\* a header map after the mutation m = <<op, key, value>>
ApplyHeaderOp(h, m) ==
  [h EXCEPT ![m[2]] = IF m[1] = "Set" THEN << m[3] >>
                      ELSE IF m[1] = "Add" THEN Append(@, m[3])
                      ELSE << >>]

\* C13: a header mutation made through Header() while Open goes to the
\* captured map and leaves the real writer alone; one made after the
\* transition to PassThrough is applied to the header map of the real
\* writer.
C13_HeaderOwnershipPasses ==
  [][ last'.op = "Header" =>
        /\ IState(cc) = "Open" =>
             /\ rw' = rw
             /\ cc'.headerMap = ApplyHeaderOp(cc.headerMap, last'.hdr)
        /\ IState(cc) = "PassThrough" =>
             rw'.header = ApplyHeaderOp(rw.header, last'.hdr) ]_vars

\* C14: on a suppressed request, a redirect body write that fails is
\* followed by status 500 and a body that is the message of the error (and
\* the line end http.Error adds); a write that succeeds leaves the redirect
\* status as the only status and its text as the only body.
C14_WriteErrorBecomes500 ==
  (pc = "done" /\ last.op = "ServeHTTP") =>
    LET status == IF method = "GET" THEN 302 ELSE 307
    IN  IF last.ret[2] # "nil"
        THEN /\ StatusCommits(rw.log) = << status, 500 >>
             /\ Len(rw.writes) = 2
             /\ rw.writes[2] = <<"E", "I", "O", "\n">>
        ELSE /\ StatusCommits(rw.log) = << status >>
             /\ Len(rw.writes) = 1

C14_Witness ==
  /\ pc = "done"
  /\ last.op = "ServeHTTP"
  /\ last.ret = <<1, SinkErr>>
  /\ method = "POST"
  /\ StatusCommits(rw.log) = << 307, 500 >>
  /\ rw.header["Content-Type"] # << >>

\* C15: Hijack on the interceptor calls the real writer's Hijack and
\* returns its result when the real writer is an http.Hijacker, and returns
\* no connection and an error otherwise; either way it commits nothing:
\* the codeCatcher, the real header map, the statuses and the written
\* buffers stay as they were.
C15_HijackForwardsWithoutCommit ==
  [][ last'.op = "Hijack" =>
        /\ cc' = cc
        /\ rw'.header = rw.header
        /\ rw'.writes = rw.writes
        /\ StatusCommits(rw'.log) = StatusCommits(rw.log)
        /\ IF sinkIsHijacker
           THEN /\ rw'.log = Append(rw.log, <<"Hijack", 0>>)
                /\ last'.ret = rw'.ret
           ELSE /\ rw' = rw
                /\ last'.ret[1] = 0
                /\ last'.ret[2] # "nil" ]_vars

C15_Witness ==
  /\ last.op = "Hijack"
  /\ sinkIsHijacker
  /\ last.ret = <<1, "nil">>
  /\ IState(cc) = "Open"
  /\ cc.headerMap["X-A"] # << >>
  /\ calls = 2
  /\ rw.log = << <<"Hijack", 0>> >>

\* C16: once New has returned, the error is the error of parsing
\* Config.Status, and the handler is nil exactly if that error is not nil;
\* with a nil handler nothing is ever served: the upstream handler makes no
\* call and the real writer is not touched.
C16_NewFailsWithoutHandler ==
  pc # "new" =>
    /\ plugin.err = NewHTTPCodeRanges(plugin.config.Status).err
    /\ plugin.handler \in {"nil", "redirectStatus"}
    /\ plugin.handler = "nil" <=> plugin.err # "nil"
    /\ plugin.handler = "nil" =>
         /\ pc = "failed"
         /\ calls = 0
         /\ rw.log = << >>
         /\ cc = newCodeCatcher

C16_Witness ==
  /\ pc = "failed"
  /\ plugin.handler = "nil"
  /\ plugin.err = ParseErr
  /\ Len(plugin.config.Status) = 2

\* the decimal text of a status code
DecimalText(code) ==
  IF code = 200 THEN <<"2", "0", "0">>
  ELSE IF code = 400 THEN <<"4", "0", "0">>
  ELSE IF code = 401 THEN <<"4", "0", "1">>
  ELSE IF code = 403 THEN <<"4", "0", "3">>
  ELSE <<"4", "0", "4">>

\* the example of the specification: template, URL, encoded URL, target
ExampleTemplate ==
  <<"h", "t", "t", "p", ":", "/", "/", "x", "/", "{", "s", "t", "a", "t",
    "u", "s", "}", "?", "u", "=", "{", "u", "r", "l", "}">>
ExampleURL ==
  <<"h", "t", "t", "p", ":", "/", "/", "a", "/", "b", "?", "c", "=", "d">>
ExampleEscapedURL ==
  <<"h", "t", "t", "p", "%", "3", "A", "%", "2", "F", "%", "2", "F", "a",
    "%", "2", "F", "b", "%", "3", "F", "c", "%", "3", "D", "d">>
ExampleLocation ==
  <<"h", "t", "t", "p", ":", "/", "/", "x", "/", "4", "0", "3", "?", "u",
    "=", "h", "t", "t", "p", "%", "3", "A", "%", "2", "F", "%", "2", "F",
    "a", "%", "2", "F", "b", "%", "3", "F", "c", "%", "3", "D", "d">>
TwiceStatus == <<"{", "s", "t", "a", "t", "u", "s", "}", "{", "s", "t", "a", "t", "u",
  "s", "}">>
TwiceURL == <<"{", "u", "r", "l", "}", "&", "{", "u", "r", "l", "}">>
URLStatusURL ==
  <<"{", "u", "r", "l", "}", "{", "s", "t", "a", "t", "u", "s", "}", "{",
    "u", "r", "l", "}">>
BracedStatus == <<"{", "{", "s", "t", "a", "t", "u", "s", "}", "}">>

\* the percent-encoded text of each URL of TargetURLs
EscapedText(url) ==
  IF url = ExampleURL THEN ExampleEscapedURL
  ELSE IF url = <<"a", " ", "b">> THEN <<"a", "+", "b">>
  ELSE <<"%", "7", "B", "s", "t", "a", "t", "u", "s", "%", "7", "D">>

\* the target expected for each template of TargetTemplates
ExpectedTarget(tmpl, code, url) ==
  LET S == DecimalText(code)
      E == EscapedText(url)
  IN  IF tmpl = << >> THEN << >>
      ELSE IF tmpl = ExampleTemplate
      THEN <<"h", "t", "t", "p", ":", "/", "/", "x", "/">> \o S
             \o <<"?", "u", "=">> \o E
      ELSE IF tmpl = TwiceStatus THEN S \o S
      ELSE IF tmpl = TwiceURL THEN E \o <<"&">> \o E
      ELSE IF tmpl = URLStatusURL THEN E \o S \o E
      ELSE IF tmpl = BracedStatus THEN <<"{">> \o S \o <<"}">>
      ELSE tmpl

\* C17: on a suppressed request the Location value is the template with
\* every {status} replaced by the decimal captured code and every {url} by
\* the percent-encoded request URL (the example of the specification
\* included); an empty template gives an empty Location value, with the
\* redirect status and body still written.
C17_TargetSubstitutesPlaceholders ==
  (pc = "done" /\ cc.caughtFilteredCode) =>
    /\ rw.header["Location"] = << ExpectedTarget(to, cc.code, reqURL) >>
    /\ (to = ExampleTemplate /\ cc.code = 403 /\ reqURL = ExampleURL) =>
         rw.header["Location"] = << ExampleLocation >>
    /\ to = << >> =>
         /\ rw.header["Location"] = << << >> >>
         /\ StatusCommits(rw.log)[1] = 302
         /\ rw.writes[1] = <<"F", "o", "u", "n", "d">>

C17_Witness ==
  /\ pc = "done"
  /\ cc.caughtFilteredCode
  /\ cc.code = 403
  /\ to = URLStatusURL
  /\ reqURL = <<"{", "s", "t", "a", "t", "u", "s", "}">>
  /\ Len(rw.header["Location"][1]) = 27

\* C18: the step that leaves Open ends Suppressed exactly if some block
\* [lo, hi] of the range set has lo <= code <= hi for the committed code:
\* both bounds of a block are in, and blocks that overlap or repeat act as
\* their union.
C18_MembershipIsClosedInterval ==
  [][ (IState(cc) = "Open" /\ IState(cc') # "Open") =>
        /\ IState(cc') = "Suppressed"
             <=> Contains(httpCodeRanges, cc'.code)
        /\ last'.op = "WriteHeader" => cc'.code = last'.arg
        /\ \A i \in 1..Len(httpCodeRanges) :
             cc'.code \in {httpCodeRanges[i][1], httpCodeRanges[i][2]}
               => IState(cc') = "Suppressed" ]_vars

C18_Witness ==
  /\ IState(cc) = "Suppressed"
  /\ cc.code = 403
  /\ httpCodeRanges = << <<401, 403>> >>
  /\ last.op = "WriteHeader"
  /\ calls = 1

\* C19: the real writer's WriteHeader is called at most once while the
\* upstream handler runs, with the captured code and only in PassThrough;
\* when ServeHTTP has returned it was called once with the captured code
\* in PassThrough, once with 302 or 307 when Suppressed and the redirect
\* body write did not fail, and never when the interceptor stayed Open.
C19_OneStatusCommit ==
  LET commits == StatusCommits(rw.log)
  IN  /\ pc = "handler" =>
           commits = IF IState(cc) = "PassThrough" THEN << cc.code >>
                     ELSE << >>
      /\ pc = "done" =>
           /\ IState(cc) = "PassThrough" => commits = << cc.code >>
           /\ IState(cc) = "Open" => commits = << >>
           /\ (IState(cc) = "Suppressed" /\ last.ret[2] = "nil") =>
                commits = << IF method = "GET" THEN 302 ELSE 307 >>

C19_Witness ==
  /\ pc = "done"
  /\ IState(cc) = "PassThrough"
  /\ cc.code = 400
  /\ calls = 3
  /\ Len(rw.writes) = 2
  /\ StatusCommits(rw.log) = << 400 >>

\* C20: the calls on the real writer are ordered.  In PassThrough the log
\* starts with the copy of the captured headers, then the status commit,
\* and every write or flush comes after them.  While the upstream handler
\* runs and the interceptor is not PassThrough, no header, status or body
\* has been put on the real writer; on a suppressed request ServeHTTP then
\* sets Location, commits the redirect status and writes the body, in this
\* order.
C20_RealWriterCallsAreOrdered ==
  LET log == rw.log
      Forwarded(i) == log[i][1] \in {"Write", "Flush", "Hijack"}
      Passive(i) == log[i][1] \in {"Flush", "Hijack"}
  IN  /\ IState(cc) = "PassThrough" =>
           /\ Len(log) >= 2
           /\ log[1][1] = "CopyHeaders"
           /\ log[2] = <<"WriteHeader", cc.code>>
           /\ \A i \in 3..Len(log) : Forwarded(i)
      /\ (pc = "handler" /\ IState(cc) # "PassThrough") =>
           \A i \in 1..Len(log) : Passive(i)
      /\ (pc = "done" /\ IState(cc) = "Suppressed") =>
           \E j \in 1..Len(log) :
             /\ \A i \in 1..(j - 1) : Passive(i)
             /\ Len(log) >= j + 2
             /\ log[j][1] = "SetHeader"
             /\ log[j + 1][1] = "WriteHeader"
             /\ log[j + 1][2] \in {302, 307}
             /\ log[j + 2][1] = "Write"

C20_Witness ==
  /\ pc = "done"
  /\ IState(cc) = "Suppressed"
  /\ Len(rw.log) = 4
  /\ rw.log[1] = <<"Flush", 0>>
  /\ rw.log[3] = <<"WriteHeader", 302>>

====
